---- MODULE Spec2Model ----
(***************************************************************************)
(* Model of app/server.py: the range-aware artifact download               *)
(* (send_with_range and its generate() generator, routes /download-apk and *)
(* /download-icon) and the control relay (POST /control publishing on the  *)
(* Redis channel, GET /stream relaying the channel as server-sent events). *)
(*                                                                         *)
(* Text is modelled as sequences of one-character strings, so that         *)
(* str.strip, str.split, int() and the f-string formatting of numbers are  *)
(* computed as Python computes them.  The bytes of an artifact are         *)
(* modelled by their offsets: a chunk returned by f.read is the extent     *)
(* [off, len] of the artifact it was read from (the artifact is immutable  *)
(* while it is served).                                                    *)
(***************************************************************************)
EXTENDS Integers, Sequences, FiniteSets, TLC

\* ------------------------------------------------------------------ bounds
\* Longest free-form tail of a Range header that is enumerated.
MaxTail == 3
\* Small artifact sizes and offsets 0..MaxSmall.
MaxSmall == 3
\* Artifact sizes and offsets around k*CHUNK for k in 1..MaxChunks.
MaxChunks == 2
\* Commands published in one behaviour.
MaxPublished == 2

\* --------------------------------------------------------------- constants
CHUNK == 1024 * 64

CHANNEL == "video_control"

ALLOWED == {"play", "pause", "forward", "reverse"}

\* ------------------------------------------------------ Python text helpers
Digits == <<"0", "1", "2", "3", "4", "5", "6", "7", "8", "9">>

IsDigit(c) == \E d \in 1..10 : Digits[d] = c

DigitVal(c) == (CHOOSE d \in 1..10 : Digits[d] = c) - 1

IsSpace(c) == c = " "

Min(a, b) == IF a < b THEN a ELSE b

\* str(n), also the f-string conversion {n}: decimal digits, "-" when negative.
RECURSIVE str(_)
str(n) ==
    IF n < 0 THEN <<"-">> \o str(-n)
    ELSE IF n < 10 THEN <<Digits[n + 1]>>
    ELSE str(n \div 10) \o <<Digits[(n % 10) + 1]>>

RECURSIVE lstrip(_)
lstrip(s) == IF s # <<>> /\ IsSpace(Head(s)) THEN lstrip(Tail(s)) ELSE s

RECURSIVE rstrip(_)
rstrip(s) ==
    IF s # <<>> /\ IsSpace(s[Len(s)]) THEN rstrip(SubSeq(s, 1, Len(s) - 1)) ELSE s

\* s.strip()
strip(s) == rstrip(lstrip(s))

\* 1-based index of the first c in s, 0 when there is none.
find(s, c) ==
    IF \E i \in 1..Len(s) : s[i] = c
    THEN CHOOSE i \in 1..Len(s) : s[i] = c /\ \A j \in 1..(i - 1) : s[j] # c
    ELSE 0

\* s.split(sep): the list of the pieces between every occurrence of sep.
RECURSIVE split(_, _)
split(s, sep) ==
    LET i == find(s, sep)
    IN  IF i = 0 THEN <<s>>
        ELSE <<SubSeq(s, 1, i - 1)>> \o split(SubSeq(s, i + 1, Len(s)), sep)

\* s.split(sep, 1): split at the first sep only.
split1(s, sep) ==
    LET i == find(s, sep)
    IN  IF i = 0 THEN <<s>>
        ELSE <<SubSeq(s, 1, i - 1), SubSeq(s, i + 1, Len(s))>>

RECURSIVE DigitsValue(_)
DigitsValue(d) ==
    IF d = <<>> THEN 0
    ELSE 10 * DigitsValue(SubSeq(d, 1, Len(d) - 1)) + DigitVal(d[Len(d)])

\* int(s): surrounding whitespace is ignored, one optional sign, then one or
\* more decimal digits; anything else raises ValueError (ok = FALSE).
int(s) ==
    LET t == strip(s)
        signed == t # <<>> /\ t[1] \in {"-", "+"}
        d == IF signed THEN Tail(t) ELSE t
    IN  IF d # <<>> /\ \A i \in 1..Len(d) : IsDigit(d[i])
        THEN [ok |-> TRUE,
              val |-> IF t[1] = "-" THEN -DigitsValue(d) ELSE DigitsValue(d)]
        ELSE [ok |-> FALSE, val |-> 0]

\* ---------------------------------------------------------- request inputs
Bytes == <<"b", "y", "t", "e", "s">>

\* Characters of the enumerated header tails: the separators the parser
\* looks for, a digit, whitespace and a character that is none of these.
Alphabet == {"=", "-", "1", " ", ","}

Units == {<<>>, Bytes \o <<"=">>, <<"i", "t", "e", "m", "s", "=">>}

Tails == UNION {[1..k -> Alphabet] : k \in 0..MaxTail}

\* Offsets and artifact sizes: the small ones and those around multiples of
\* the chunk size.
Offsets == (0..MaxSmall) \cup {k * CHUNK + d : k \in 1..MaxChunks, d \in {-1, 0, 1}}

Sizes == Offsets

OffsetStr == [n \in Offsets |-> str(n)]

\* "bytes=<start>-<end>"; a bound of -1 stands for an omitted bound.
RangeHeaderTable ==
    [s \in Offsets \cup {-1}, e \in Offsets \cup {-1} |->
        Bytes \o <<"=">> \o (IF s = -1 THEN <<>> ELSE OffsetStr[s])
              \o <<"-">> \o (IF e = -1 THEN <<>> ELSE OffsetStr[e])]

RangeHeader(s, e) == RangeHeaderTable[s, e]

RangeHeaders == {RangeHeader(s, e) : s, e \in Offsets \cup {-1}}

FreeHeaders == {u \o t : u \in Units, t \in Tails}

Headers == FreeHeaders \cup RangeHeaders

Methods == {"GET", "HEAD"}

\* The two download routes with the mime type and download name each passes.
download_apk ==
    [mime |-> "application/vnd.android.package-archive",
     download_name |-> "app-release.apk"]

download_icon == [mime |-> "image/png", download_name |-> "icon.png"]

Routes == {download_apk, download_icon}

\* ---------------------------------------------------------------- responses
NoDisposition == [disposition |-> "", filename |-> ""]

\* A response with no header set and an empty body.  Content-Disposition is
\* kept as its disposition type and filename parameter.
Response(status) ==
    [status |-> status, content_type |-> "", content_disposition |-> NoDisposition,
     accept_ranges |-> "", content_length |-> <<>>, content_range |-> <<>>,
     body |-> <<>>, json |-> "", start |-> 0, length |-> 0]

\* The bytes of a whole artifact, as one extent.
WholeFile(file_size) == IF file_size = 0 THEN <<>> ELSE <<[off |-> 0, len |-> file_size]>>

\* flask.send_file(path, mimetype=, as_attachment=True, download_name=): the
\* whole file with its type and an attachment disposition.
send_file(file_size, mimetype, download_name) ==
    [Response(200) EXCEPT
        !.content_type = mimetype,
        !.content_disposition = [disposition |-> "attachment", filename |-> download_name],
        !.content_length = str(file_size),
        !.body = WholeFile(file_size)]

\* Mutant of parse_range: "bytes=-<n>" read as the last n bytes of the artifact.
parse_range_suffix(range_header, file_size) ==
    LET parts == split(range_header, "=")
        raised == [ok |-> FALSE, start |-> 0, end |-> 0]
    IN  IF Len(parts) # 2 THEN raised
        ELSE LET se == split1(parts[2], "-")
             IN  IF Len(se) # 2 THEN raised
                 ELSE LET start_s == se[1]
                          end_s == se[2]
                          st == IF start_s # <<>> THEN int(start_s)
                                ELSE [ok |-> TRUE, val |-> 0]
                          en == IF end_s # <<>> THEN int(end_s)
                                ELSE [ok |-> TRUE, val |-> file_size - 1]
                      IN  IF st.ok /\ en.ok
                          THEN IF start_s = <<>> /\ end_s # <<>>
                               THEN [ok |-> TRUE, start |-> file_size - en.val,
                                     end |-> file_size - 1]
                               ELSE [ok |-> TRUE, start |-> st.val, end |-> en.val]
                          ELSE raised

\* Lines 71-74: the Range header split into its bounds; ok = FALSE when the
\* try block raises (an unpacking error or a ValueError of int()).
parse_range(range_header, file_size) ==
    LET parts == split(range_header, "=")
        raised == [ok |-> FALSE, start |-> 0, end |-> 0]
    IN  IF Len(parts) # 2 THEN raised
        ELSE LET se == split1(parts[2], "-")
             IN  IF Len(se) # 2 THEN raised
                 ELSE LET start_s == se[1]
                          end_s == se[2]
                          st == IF start_s # <<>> THEN int(start_s)
                                ELSE [ok |-> TRUE, val |-> 0]
                          en == IF end_s # <<>> THEN int(end_s)
                                ELSE [ok |-> TRUE, val |-> file_size - 1]
                      IN  IF st.ok /\ en.ok
                          THEN [ok |-> TRUE, start |-> st.val, end |-> en.val]
                          ELSE raised

\* Mutant of unsatisfiable: the last byte of the artifact is refused.
unsatisfiable_strict(start, end, file_size) == start > end \/ end >= file_size - 1

\* Mutant of unsatisfiable: end = file_size is let through.
unsatisfiable_lax(start, end, file_size) == start > end \/ end > file_size

\* Line 75: the range cannot be served.
unsatisfiable(start, end, file_size) == start > end \/ end >= file_size

\* Mutant of head_response: the Content-Length of the empty body is kept.
head_response_empty(file_size, mime, download_name) ==
    [Response(200) EXCEPT
        !.content_type = mime,
        !.content_disposition = [disposition |-> "attachment", filename |-> download_name],
        !.accept_ranges = "bytes",
        !.content_length = str(0)]

\* Lines 59-64: the HEAD response.
head_response(file_size, mime, download_name) ==
    [Response(200) EXCEPT
        !.content_type = mime,
        !.content_disposition = [disposition |-> "attachment", filename |-> download_name],
        !.accept_ranges = "bytes",
        !.content_length = str(file_size)]

\* Lines 66-69 and 80-83: the whole artifact.
full_response(file_size, mime, download_name) ==
    [send_file(file_size, mime, download_name) EXCEPT
        !.accept_ranges = "bytes",
        !.content_length = str(file_size)]

\* Lines 76-78.
range_not_satisfiable(file_size) ==
    [Response(416) EXCEPT
        !.content_type = "text/html; charset=utf-8",
        !.content_range = Bytes \o <<" ", "*", "/">> \o str(file_size)]

\* Mutant of partial_response: length = end - start.
partial_response_short(start, end, file_size, mime, download_name) ==
    [Response(206) EXCEPT
        !.content_type = mime,
        !.content_range = Bytes \o <<" ">> \o str(start) \o <<"-">> \o str(end)
                                \o <<"/">> \o str(file_size),
        !.accept_ranges = "bytes",
        !.content_length = str(end - start),
        !.content_disposition = [disposition |-> "attachment", filename |-> download_name],
        !.start = start,
        !.length = end - start]

\* Lines 84 and 95-100: the 206 response around the generator; its body is
\* produced by generate.
partial_response(start, end, file_size, mime, download_name) ==
    [Response(206) EXCEPT
        !.content_type = mime,
        !.content_range = Bytes \o <<" ">> \o str(start) \o <<"-">> \o str(end)
                                \o <<"/">> \o str(file_size),
        !.accept_ranges = "bytes",
        !.content_length = str(end - start + 1),
        !.content_disposition = [disposition |-> "attachment", filename |-> download_name],
        !.start = start,
        !.length = end - start + 1]

\* send_with_range(path, mime, download_name) for a request with the given
\* method and Range header, on an artifact that exists or not.
send_with_range(exists, file_size, method, raw_header, mime, download_name) ==
    IF ~exists
    THEN [Response(404) EXCEPT !.content_type = "application/json",
                               !.json = "File not found"]
    ELSE LET range_header == strip(raw_header)
             r == parse_range(range_header, file_size)
         IN  IF method = "HEAD" THEN head_response(file_size, mime, download_name)
             ELSE IF range_header = <<>> THEN full_response(file_size, mime, download_name)
             ELSE IF ~r.ok THEN full_response(file_size, mime, download_name)
             ELSE IF unsatisfiable(r.start, r.end, file_size)
                  THEN range_not_satisfiable(file_size)
             ELSE partial_response(r.start, r.end, file_size, mime, download_name)

\* f.read(n) at position pos of an artifact of file_size bytes: the extent
\* read, at most n bytes and none past the end of the file.
read(pos, n, file_size) ==
    [off |-> pos, len |-> IF pos >= file_size THEN 0 ELSE Min(n, file_size - pos)]

\* Mutant of read_size: every read asks for a whole chunk.
read_size_fixed(remaining) == CHUNK

\* Line 90: the size asked of f.read.
read_size(remaining) == Min(CHUNK, remaining)

\* -------------------------------------------------------------------- state
VARIABLES
    exists,         \* os.path.exists(path)
    file_size,      \* os.path.getsize(path)
    route,          \* the download route of the artifact
    method,         \* request.method of the request being served
    range_header,   \* request.headers.get("Range", "")
    resp,           \* the response returned by send_with_range
    gen,            \* the generate() generator of a 206 response
    io,             \* what the current request did to the artifact
    pc,             \* idle | streaming | sent
    part,           \* split download: 0 none, 1 first half, 2 second half
    split_at,       \* split download: the last offset of the first half
    saved,          \* split download: the response to the first half
    sub_pc,         \* per subscriber: none | open | listening | closed
    connected,      \* per subscriber: the peer still holds the connection
    inbox,          \* per subscriber: messages Redis has sent to its pubsub
    frames,         \* per subscriber: the frames written to the peer
    registry,       \* Redis: the pubsub connections subscribed to CHANNEL
    published,      \* history: the commands given to rdb.publish, in order
    joined,         \* history: Len(published) when the subscriber subscribed
    ctl             \* the last POST to /control: its action and its response

range_vars == <<exists, file_size, route, method, range_header, resp, gen, io, pc>>

client_vars == <<part, split_at, saved>>

bus_vars == <<sub_pc, connected, inbox, frames, registry, published, joined, ctl>>

\* The subscribers of /stream: two, for a fan-out to more than one peer and
\* for a peer that subscribes after another.
Subs == {1, 2}

NoJson == [status |-> "", message |-> "", sent |-> ""]

\* The control relay before any request.
BusInit ==
    /\ sub_pc = [s \in Subs |-> "none"]
    /\ connected = [s \in Subs |-> FALSE]
    /\ inbox = [s \in Subs |-> <<>>]
    /\ frames = [s \in Subs |-> <<>>]
    /\ registry = {}
    /\ published = <<>>
    /\ joined = [s \in Subs |-> 0]
    /\ ctl = [body |-> "", action |-> [t |-> "None", v |-> ""], medium |-> "",
              status |-> 0, json |-> NoJson]

NoGen == [pc |-> "none", pos |-> 0, remaining |-> 0, chunk_len |-> 0]

NoIo == [opens |-> 0, seeks |-> 0, reads |-> 0, high |-> 0]

RangeInit ==
    /\ exists \in BOOLEAN
    \* the size is looked up only of an artifact that exists
    /\ file_size \in (IF exists THEN Sizes ELSE {0})
    /\ route \in Routes
    /\ method = ""
    /\ range_header = <<>>
    /\ resp = Response(0)
    /\ gen = NoGen
    /\ io = NoIo
    /\ pc = "idle"
    /\ part = 0
    /\ split_at = -1
    /\ saved = Response(0)

\* One request handled by download_apk / download_icon: send_with_range
\* returns the response; a 206 response leaves its generator to be drained.
Serve(m, h) ==
    LET r == send_with_range(exists, file_size, m, h, route.mime, route.download_name)
    IN  /\ method' = m
        /\ range_header' = h
        /\ resp' = r
        /\ IF r.status = 206
           THEN /\ gen' = [NoGen EXCEPT !.pc = "start"]
                /\ io' = NoIo
                /\ pc' = "streaming"
           ELSE /\ gen' = NoGen
                \* send_file opens and reads the whole artifact
                /\ io' = IF r.status = 200 /\ m # "HEAD"
                         THEN [opens |-> 1, seeks |-> 0, reads |-> 1, high |-> file_size]
                         ELSE NoIo
                /\ pc' = "sent"
        /\ UNCHANGED <<exists, file_size, route>>

Request ==
    /\ pc = "idle"
    /\ \E m \in Methods, h \in Headers : Serve(m, h)
    /\ UNCHANGED client_vars
    /\ UNCHANGED bus_vars

\* One resumption of generate(): from its start or from the last yield to
\* the next yield or to its end.
generate ==
    /\ pc = "streaming"
    /\ LET first == gen.pc = "start"
           \* with open(path, "rb") as f: f.seek(start); remaining = length
           pos == IF first THEN resp.start ELSE gen.pos
           \* remaining -= len(chunk)
           remaining == IF first THEN resp.length ELSE gen.remaining - gen.chunk_len
           chunk == read(pos, read_size(remaining), file_size)
           io1 == IF first THEN [io EXCEPT !.opens = @ + 1, !.seeks = @ + 1] ELSE io
       IN  IF remaining > 0 /\ chunk.len > 0
           THEN \* yield chunk
                /\ resp' = [resp EXCEPT !.body = Append(@, chunk)]
                /\ gen' = [pc |-> "yielded", pos |-> pos + chunk.len,
                           remaining |-> remaining, chunk_len |-> chunk.len]
                /\ io' = [io1 EXCEPT !.reads = @ + 1,
                                     !.high = IF pos + chunk.len > @ THEN pos + chunk.len ELSE @]
                /\ pc' = "streaming"
           ELSE \* while remaining > 0 ended, or if not chunk: break
                /\ resp' = resp
                /\ gen' = [pc |-> "done", pos |-> pos, remaining |-> remaining, chunk_len |-> 0]
                /\ io' = IF remaining > 0 THEN [io1 EXCEPT !.reads = @ + 1] ELSE io1
                /\ pc' = "sent"
    /\ UNCHANGED <<exists, file_size, route, method, range_header>>
    /\ UNCHANGED <<part, split_at, saved>>
    /\ UNCHANGED bus_vars

\* The exchange is over; the server is ready for the next request.
Finish ==
    /\ pc = "sent"
    /\ part = 0
    /\ method' = ""
    /\ range_header' = <<>>
    /\ resp' = Response(0)
    /\ gen' = NoGen
    /\ io' = NoIo
    /\ pc' = "idle"
    /\ UNCHANGED <<exists, file_size, route>>
    /\ UNCHANGED client_vars
    /\ UNCHANGED bus_vars

\* A client that downloads the artifact in two adjacent ranges: first
\* bytes=0-<k> ...
GetFirst(k) ==
    /\ pc = "idle"
    /\ part = 0
    /\ Serve("GET", RangeHeader(0, k))
    /\ part' = 1
    /\ split_at' = k
    /\ saved' = saved
    /\ UNCHANGED bus_vars

\* ... then, the first body received, bytes=<k+1>-<size-1>.
GetSecond ==
    /\ pc = "sent"
    /\ part = 1
    /\ Serve("GET", Bytes \o <<"=">> \o str(split_at + 1) \o <<"-">> \o str(file_size - 1))
    /\ part' = 2
    /\ split_at' = split_at
    /\ saved' = resp
    /\ UNCHANGED bus_vars

vars == <<range_vars, client_vars, bus_vars>>

\* The state after start-up: an artifact on disk (or none), no request yet,
\* no subscriber, nothing published.
Init == RangeInit /\ BusInit

\* The download endpoints serving arbitrary requests, one at a time (requests
\* share no state, so their interleaving adds nothing).
RangeNext == Request \/ generate \/ Finish

SpecRange == Init /\ [][RangeNext]_vars

\* The download endpoints serving a two-part download.
SplitNext == (\E k \in Offsets : GetFirst(k)) \/ GetSecond \/ generate

SpecSplit == Init /\ [][SplitNext]_vars

\* ------------------------------------------------------------ control relay
\* JSON values of the "action" member of a posted object, as request.get_json()
\* returns them: a str, None (null, or no such member), a list.
JsonStr(v) == [t |-> "str", v |-> v]

JsonNone == [t |-> "None", v |-> ""]

JsonList(v) == [t |-> "list", v |-> v]

\* The commands that are posted: two of the four allowed ones are enough to
\* tell the order of delivery.
PostedCommands == {"play", "pause"}

PostedActions ==
    {JsonStr(a) : a \in PostedCommands} \cup {JsonStr("stop"), JsonNone, JsonList("play")}

\* The bodies posted to /control: a JSON object with the given "action"
\* member (JsonNone: without one), the JSON texts null and [], a body that
\* is not JSON, and no JSON body at all.
JsonObject(action) == [kind |-> "object", action |-> action]

JsonNull == [kind |-> "null", action |-> JsonNone]

JsonArray == [kind |-> "array", action |-> JsonNone]

NotJson == [kind |-> "invalid", action |-> JsonNone]

NoBody == [kind |-> "missing", action |-> JsonNone]

PostedBodies ==
    {JsonObject(a) : a \in PostedActions} \cup {JsonNull, JsonArray, NotJson, NoBody}

\* Line 118, request.get_json(): the outcomes Flask can produce.  A JSON text
\* is returned parsed (null as None); a body that does not parse is refused
\* with 400; without a JSON body the call returns None or, in later Flask
\* versions, refuses the request with 415.
get_json(body) ==
    CASE body.kind = "invalid" -> {[raised |-> 400, data |-> body]}
      [] body.kind = "missing" -> {[raised |-> 415, data |-> body],
                                   [raised |-> 0, data |-> JsonNull]}
      [] OTHER -> {[raised |-> 0, data |-> body]}

\* Line 119, data.get("action"): only a dict has get; None and a list raise
\* AttributeError.
has_get(data) == data.kind = "object"

\* hash(action), which the set membership test of line 120 computes first,
\* raises TypeError for a list.
hashable(action) == action.t # "list"

\* Line 120: action in {"play", "pause", "forward", "reverse"}.
allowed(action) == action.t = "str" /\ action.v \in ALLOWED

\* A message as pubsub.listen() yields it.
Message(type, data) == [type |-> type, data |-> data]

\* rdb.publish(CHANNEL, action): Redis appends the message to the connection
\* of every pubsub subscribed to the channel, in the order it processes the
\* publishes.
publish(boxes, subscribed, data) ==
    [s \in Subs |-> IF s \in subscribed
                    THEN Append(boxes[s], Message("message", data))
                    ELSE boxes[s]]

\* Mutant of is_message: no filter on the message type.
is_message_any(message) == TRUE

\* Line 131.
is_message(message) == message.type = "message"

\* Line 132: the server-sent event frame.
frame(message) == "data: " \o message.data \o "\n\n"

\* What is kept of a POST to /control: the kind of its body, its action,
\* how the handler found Redis ("" when it did not call it) and the status
\* and JSON body of the answer.
Answer(body, action, medium, status, json) ==
    [body |-> body.kind, action |-> action, medium |-> medium, status |-> status,
     json |-> json]

\* Mutant of connection_error: the call goes through whatever the state of
\* the server.
connection_error_never(up) == FALSE

\* Lines 122 and 128-129: a call on rdb raises redis.ConnectionError when
\* the Redis server cannot be reached.
connection_error(up) == ~up

\* POST /control with the given body.
\* Whether the Redis server can be reached when the handler calls it: either,
\* for a request that gets as far as line 122; the others never call it.
reachable(body) ==
    IF body.kind = "object" /\ allowed(body.action) THEN BOOLEAN ELSE {TRUE}

control(body) ==
    /\ (body.kind = "object" /\ allowed(body.action)) => Len(published) < MaxPublished
    /\ \E r \in get_json(body), up \in reachable(body) :
          LET data == r.data
              action == data.action
          IN  IF r.raised # 0
              THEN \* get_json aborts the request
                   /\ ctl' = Answer(body, JsonNone, "", r.raised, NoJson)
                   /\ UNCHANGED <<published, inbox>>
              ELSE IF ~has_get(data)
              THEN \* AttributeError, unhandled: Flask answers 500
                   /\ ctl' = Answer(body, JsonNone, "", 500, NoJson)
                   /\ UNCHANGED <<published, inbox>>
              ELSE IF ~hashable(action)
              THEN \* TypeError: unhashable type, unhandled: Flask answers 500
                   /\ ctl' = Answer(body, action, "", 500, NoJson)
                   /\ UNCHANGED <<published, inbox>>
              ELSE IF ~allowed(action)
              THEN /\ ctl' = Answer(body, action, "", 400,
                                    [status |-> "error", message |-> "Invalid action",
                                     sent |-> ""])
                   /\ UNCHANGED <<published, inbox>>
              ELSE IF connection_error(up)
              THEN \* rdb.publish raises ConnectionError, unhandled: Flask
                   \* answers 500; the command is kept nowhere
                   /\ ctl' = Answer(body, action, "down", 500, NoJson)
                   /\ UNCHANGED <<published, inbox>>
              ELSE /\ inbox' = publish(inbox, registry, action.v)
                   /\ published' = Append(published, action.v)
                   /\ ctl' = Answer(body, action, IF up THEN "up" ELSE "down", 200,
                                    [status |-> "ok", message |-> "", sent |-> action.v])
    /\ UNCHANGED <<sub_pc, connected, frames, registry, joined>>
    /\ UNCHANGED <<range_vars, client_vars>>

\* GET /stream: the handler returns the response around event_stream(), which
\* has not run yet.  (Subscribers are taken in index order: they are
\* interchangeable.)
stream(s) ==
    /\ sub_pc[s] = "none"
    /\ (IF s = 1 THEN TRUE ELSE sub_pc[s - 1] # "none")
    /\ sub_pc' = [sub_pc EXCEPT ![s] = "open"]
    /\ connected' = [connected EXCEPT ![s] = TRUE]
    /\ UNCHANGED <<inbox, frames, registry, published, joined, ctl>>
    /\ UNCHANGED <<range_vars, client_vars>>

\* The server starts to iterate event_stream(): lines 128-129, pubsub created
\* and subscribed; Redis confirms the subscription with a "subscribe" message.
subscribe(s) ==
    /\ sub_pc[s] = "open"
    /\ \E up \in BOOLEAN :
          IF connection_error(up)
          THEN \* pubsub.subscribe raises: event_stream() ends, the stream is
               \* closed without a subscription
               /\ sub_pc' = [sub_pc EXCEPT ![s] = "closed"]
               /\ UNCHANGED <<registry, inbox, joined>>
          ELSE /\ sub_pc' = [sub_pc EXCEPT ![s] = "listening"]
               /\ registry' = registry \cup {s}
               /\ inbox' = [inbox EXCEPT ![s] = Append(@, Message("subscribe", "1"))]
               /\ joined' = [joined EXCEPT ![s] = Len(published)]
    /\ UNCHANGED <<connected, frames, published, ctl>>
    /\ UNCHANGED <<range_vars, client_vars>>

\* One iteration of for message in pubsub.listen() (lines 130-132); it blocks
\* while nothing has arrived.  The frame yielded is written to the peer.
listen(s) ==
    /\ sub_pc[s] = "listening"
    /\ inbox[s] # <<>>
    /\ LET message == Head(inbox[s])
       IN  \/ /\ is_message(message) => connected[s]
              /\ inbox' = [inbox EXCEPT ![s] = Tail(@)]
              /\ frames' = [frames EXCEPT ![s] =
                               IF is_message(message) THEN Append(@, frame(message)) ELSE @]
              /\ UNCHANGED <<sub_pc, registry>>
           \/ \* the peer is gone and the write is lost in the socket buffer
              /\ is_message(message) /\ ~connected[s]
              /\ inbox' = [inbox EXCEPT ![s] = Tail(@)]
              /\ UNCHANGED <<frames, sub_pc, registry>>
           \/ \* the peer is gone and the write fails: the server closes the
              \* generator, the pubsub is collected and its connection
              \* closed, and Redis drops the subscription
              /\ is_message(message) /\ ~connected[s]
              /\ inbox' = [inbox EXCEPT ![s] = <<>>]
              /\ sub_pc' = [sub_pc EXCEPT ![s] = "closed"]
              /\ registry' = registry \ {s}
              /\ UNCHANGED frames
    /\ UNCHANGED <<connected, published, joined, ctl>>
    /\ UNCHANGED <<range_vars, client_vars>>

\* The peer of a /stream response closes its connection.  Nothing on the
\* server runs: event_stream() sits in pubsub.listen() or at its yield.
disconnect(s) ==
    /\ sub_pc[s] \in {"open", "listening"}
    /\ connected[s]
    /\ connected' = [connected EXCEPT ![s] = FALSE]
    \* what the peer had received goes with its connection
    /\ frames' = [frames EXCEPT ![s] = <<>>]
    /\ joined' = [joined EXCEPT ![s] = 0]
    /\ UNCHANGED <<sub_pc, inbox, registry, published, ctl>>
    /\ UNCHANGED <<range_vars, client_vars>>

BusNext ==
    \/ \E b \in PostedBodies : control(b)
    \/ \E s \in Subs : stream(s)
    \/ \E s \in Subs : subscribe(s)
    \/ \E s \in Subs : listen(s)
    \/ \E s \in Subs : disconnect(s)

\* The relay shares no state with the downloads: its behaviours are taken
\* with no artifact and no download request.
InitBus == Init /\ ~exists /\ route = download_apk

SpecBus == InitBus /\ [][BusNext]_vars

\* ------------------------------------------------- claims: range download
\* Number of bytes in a body.
RECURSIVE BodyLen(_)
BodyLen(body) == IF body = <<>> THEN 0 ELSE body[1].len + BodyLen(Tail(body))

\* The body is, byte for byte, the n bytes of the artifact from offset from:
\* non-empty extents, each starting where the one before ended.
IsSlice(body, from, n) ==
    /\ BodyLen(body) = n
    /\ \A i \in 1..Len(body) :
          /\ body[i].len > 0
          /\ body[i].off = from + BodyLen(SubSeq(body, 1, i - 1))

\* The text "bytes <s>-<e>/<size>".
ContentRange(s, e, size) ==
    Bytes \o <<" ">> \o str(s) \o <<"-">> \o str(e) \o <<"/">> \o str(size)

\* A GET on an existing artifact has been answered (the body of a 206 may
\* still be streaming).
AnsweredGet == pc # "idle" /\ exists /\ method = "GET"

\* The Range header of the request is bytes=<s>-<e> (-1: the bound is omitted).
HeaderIs(s, e) == range_header = RangeHeader(s, e)

\* C1 (range coverage law): a GET with "bytes=<s>-<e>", 0 <= s <= e < size,
\* is answered 206 with Content-Range "bytes <s>-<e>/<size>", Content-Length
\* e-s+1, and, once streamed, a body that is artifact[s..e] byte for byte
\* (a prefix of it while streaming).
C1_RangeCoverage ==
    (AnsweredGet /\ range_header \in RangeHeaders) =>
    \A s, e \in Offsets :
        (s <= e /\ e < file_size /\ HeaderIs(s, e))
        => /\ resp.status = 206
           /\ resp.content_range = ContentRange(s, e, file_size)
           /\ resp.content_length = str(e - s + 1)
           /\ IsSlice(resp.body, s, BodyLen(resp.body))
           /\ BodyLen(resp.body) <= e - s + 1
           /\ (pc = "sent" => IsSlice(resp.body, s, e - s + 1))

C1_Witness ==
    /\ AnsweredGet /\ pc = "sent" /\ resp.status = 206
    /\ Len(resp.body) >= 2
    /\ \E s, e \in Offsets :
          HeaderIs(s, e) /\ 0 < s /\ s < e /\ e < file_size - 1

\* The header has the form bytes=<start>?-<end>?, both bounds decimal digits.
HasRangeForm(h) ==
    /\ Len(h) >= 7
    /\ SubSeq(h, 1, 6) = Bytes \o <<"=">>
    /\ LET rest == SubSeq(h, 7, Len(h))
           i == find(rest, "-")
       IN  /\ i # 0
           /\ \A j \in 1..Len(rest) : j # i => IsDigit(rest[j])

\* C4 (malformed range leniency): a GET whose Range header is non-empty and
\* not of the form bytes=<start>?-<end>? is answered exactly as a GET without
\* the header: 200, the full body, Content-Length = size, Accept-Ranges: bytes.
C4_MalformedRangeLeniency ==
    (AnsweredGet /\ strip(range_header) # <<>> /\ ~HasRangeForm(strip(range_header)))
    => /\ resp = send_with_range(TRUE, file_size, "GET", <<>>, route.mime, route.download_name)
       /\ resp.status = 200
       /\ resp.body = WholeFile(file_size)
       /\ resp.content_length = str(file_size)
       /\ resp.accept_ranges = "bytes"

\* The bounds a header bytes=<s>-<e> stands for (-1: the bound is omitted).
ResolvedStart(s) == IF s = -1 THEN 0 ELSE s

ResolvedEnd(e, size) == IF e = -1 THEN size - 1 ELSE e

\* C5 (unsatisfiable range): a GET with a range whose resolved bounds have
\* start > end or end >= size (any range on an empty artifact included) is
\* answered 416 with an empty body and Content-Range "bytes */<size>", and the
\* artifact is not opened; and every 206 response has 0 <= start <= end < size.
C5_UnsatisfiableRange ==
    /\ (AnsweredGet /\ range_header \in RangeHeaders) =>
       \A s, e \in Offsets \cup {-1} :
          (/\ \/ ResolvedStart(s) > ResolvedEnd(e, file_size)
              \/ ResolvedEnd(e, file_size) >= file_size
           /\ HeaderIs(s, e))
          => /\ resp.status = 416
             /\ resp.body = <<>>
             /\ resp.content_range = Bytes \o <<" ", "*", "/">> \o str(file_size)
             /\ io = NoIo
    /\ (pc # "idle" /\ resp.status = 206)
          => /\ 0 <= resp.start
             /\ resp.start <= resp.start + resp.length - 1
             /\ resp.start + resp.length - 1 < file_size
             /\ resp.content_range =
                   ContentRange(resp.start, resp.start + resp.length - 1, file_size)
    /\ (AnsweredGet /\ resp.status = 416) => (resp.body = <<>> /\ io = NoIo)

C5_Witness ==
    /\ AnsweredGet /\ resp.status = 416 /\ file_size > CHUNK
    /\ \E s, e \in Offsets : HeaderIs(s, e) /\ s <= e /\ e = file_size

\* C6 (streaming exactness): in a 206 response every chunk is CHUNK bytes but
\* the last, which is at most CHUNK; no byte past end is read; the file is
\* opened and seeked once, to start; and when generate() has finished the
\* bytes yielded are exactly the declared Content-Length.
C6_StreamingExactness ==
    (pc # "idle" /\ resp.status = 206)
    => /\ \A i \in 1..Len(resp.body) :
             /\ resp.body[i].len <= CHUNK
             /\ i < Len(resp.body) => resp.body[i].len = CHUNK
       /\ io.high <= resp.start + resp.length
       /\ io.seeks <= 1 /\ io.opens <= 1
       /\ (resp.body # <<>> => resp.body[1].off = resp.start)
       /\ BodyLen(resp.body) <= resp.length
       /\ (pc = "sent" =>
             /\ BodyLen(resp.body) = resp.length
             /\ resp.content_length = str(BodyLen(resp.body))
             /\ io.seeks = 1
             /\ io.high = resp.start + resp.length)

C6_Witness ==
    /\ pc = "sent" /\ resp.status = 206
    /\ Len(resp.body) >= 2
    /\ resp.body[Len(resp.body)].len < CHUNK
    /\ resp.start + resp.length < file_size

C10_OmittedBounds ==
    (AnsweredGet /\ range_header \in RangeHeaders) =>
    \A n \in Offsets :
        /\ (n <= file_size - 1 /\ HeaderIs(n, -1))
           => /\ resp.status = 206
              /\ resp.start = n /\ resp.length = file_size - n
              /\ resp.content_range = ContentRange(n, file_size - 1, file_size)
              /\ resp.content_length = str(file_size - n)
        /\ (n < file_size /\ HeaderIs(-1, n))
           => /\ resp.status = 206
              /\ resp.start = 0 /\ resp.length = n + 1
              /\ resp.content_range = ContentRange(0, n, file_size)
              /\ resp.content_length = str(n + 1)

C10_Witness ==
    /\ AnsweredGet /\ resp.status = 206 /\ pc = "sent"
    /\ \E n \in Offsets :
          /\ 0 < n /\ n < file_size - 1
          /\ (HeaderIs(n, -1) \/ HeaderIs(-1, n))

\* C9 (adjacent-range concatenation): for an artifact of size >= 2 and a
\* split point 0 <= k < size-1, GET bytes=0-<k> and GET bytes=<k+1>-<size-1>
\* are both answered 206 and their bodies, concatenated, are the whole
\* artifact byte for byte.
C9_AdjacentConcatenation ==
    (/\ part = 2 /\ pc = "sent" /\ exists
     /\ file_size >= 2 /\ 0 <= split_at /\ split_at < file_size - 1)
    => /\ saved.status = 206
       /\ resp.status = 206
       /\ IsSlice(saved.body, 0, split_at + 1)
       /\ IsSlice(resp.body, split_at + 1, file_size - split_at - 1)
       /\ IsSlice(saved.body \o resp.body, 0, file_size)

C9_Witness ==
    /\ part = 2 /\ pc = "sent" /\ exists
    /\ split_at + 1 = CHUNK /\ file_size = 2 * CHUNK + 1
    /\ saved.status = 206 /\ resp.status = 206
    /\ Len(saved.body) = 1 /\ Len(resp.body) = 2

\* -------------------------------------------------- claims: control relay
\* The frames of a sequence of commands, one per command, in order.
FramesOf(commands) == [i \in 1..Len(commands) |-> "data: " \o commands[i] \o "\n\n"]

\* The commands among the messages waiting in an inbox.
RECURSIVE CommandsIn(_)
CommandsIn(box) ==
    IF box = <<>> THEN <<>>
    ELSE IF Head(box).type = "message"
         THEN <<Head(box).data>> \o CommandsIn(Tail(box))
         ELSE CommandsIn(Tail(box))

\* C2 (leak-free teardown): when a publish is processed, every subscription
\* in the registry belongs to a subscriber that is still connected, so no
\* publish is delivered to a subscriber that has left.
C2_LeakFreeTeardown ==
    [][published' # published => \A s \in registry : connected[s]]_vars

\* C3 (fan-out ordering, no replay): the frames written to a connected
\* subscriber, followed by the frames of the commands still waiting in its
\* inbox, are exactly the frames of the valid commands published since it
\* subscribed, in publish order, one frame per command; a command published
\* before it subscribed is among neither.
C3_FanOutOrdering ==
    \A s \in Subs :
        (connected[s] /\ sub_pc[s] = "listening")
        => /\ frames[s] \o FramesOf(CommandsIn(inbox[s]))
                = FramesOf(SubSeq(published, joined[s] + 1, Len(published)))
           /\ s \in registry

\* Both subscribers connected through "play" then "pause" and served both
\* frames, or one of them subscribed after both and served none.
C3_Witness ==
    /\ published = <<"play", "pause">>
    /\ connected[1] /\ sub_pc[1] = "listening"
    /\ frames[1] = <<"data: play\n\n", "data: pause\n\n">>
    /\ connected[2] /\ sub_pc[2] = "listening"
    /\ joined[2] = 2 /\ inbox[2] = <<>> /\ frames[2] = <<>>

\* C7 (command validation isolation): a POST to /control whose action is not
\* one of play, pause, forward, reverse is answered 400 with
\* {"status": "error", "message": "Invalid action"}, publishes nothing and
\* puts no frame on any stream; a POST with an action of the set publishes it
\* exactly once and is answered {"status": "ok", "sent": action}.
C7_ValidationIsolation ==
    [][((ctl' # ctl \/ published' # published) /\ ctl'.body = "object") =>
         IF ctl'.action.t = "str" /\ ctl'.action.v \in ALLOWED
         THEN /\ published' = Append(published, ctl'.action.v)
              /\ ctl'.status = 200
              /\ ctl'.json = [status |-> "ok", message |-> "", sent |-> ctl'.action.v]
         ELSE /\ ctl'.status = 400
              /\ ctl'.json = [status |-> "error", message |-> "Invalid action", sent |-> ""]
              /\ published' = published
              /\ inbox' = inbox
              /\ frames' = frames]_vars

\* C11 (client input errors on /control): a POST whose body is no command
\* (no body, a body that is not JSON, or JSON that is not an object, such as
\* null or a list) is answered 400 and publishes nothing; it is never
\* answered 5xx.
C11_ClientInputErrors ==
    [][(ctl' # ctl /\ ctl'.body \in {"missing", "invalid", "null", "array"}) =>
         /\ ctl'.status = 400
         /\ published' = published
         /\ inbox' = inbox]_vars

\* C12 (fail-fast publish): a valid POST to /control made while Redis is
\* unreachable is answered 5xx at once and its command is kept nowhere:
\* nothing is published, queued or written to any stream by that request,
\* and a subscriber is only ever handed the command of a request that
\* reached Redis and was answered ok, in the step of that request.
C12_FailFastPublish ==
    [][/\ (ctl' # ctl /\ ctl'.medium = "down")
          => /\ ctl'.status >= 500
             /\ published' = published
             /\ inbox' = inbox
             /\ frames' = frames
       /\ \A s \in Subs :
             Len(CommandsIn(inbox'[s])) > Len(CommandsIn(inbox[s]))
             => /\ ctl'.medium = "up" /\ ctl'.status = 200
                /\ published' = Append(published, ctl'.action.v)
                /\ CommandsIn(inbox'[s]) = Append(CommandsIn(inbox[s]), ctl'.action.v)]_vars

\* A publish that failed after one that was delivered: the subscriber has
\* the first command and nothing of the second.
C12_Witness ==
    /\ ctl.medium = "down" /\ ctl.status = 500 /\ ctl.action = JsonStr("pause")
    /\ published = <<"play">>
    /\ connected[1] /\ sub_pc[1] = "listening" /\ joined[1] = 0
    /\ inbox[1] = <<>> /\ frames[1] = <<"data: play\n\n">>

====
